---- MODULE Spec2Model ----
(***************************************************************************)
(* The three demonstration scripts of the plp_bookstore repository         *)
(* (runQueries, runAggregations, runIndexing) against one shared "books"   *)
(* collection.  Each script is an async function: between two awaits it    *)
(* runs without interruption, so one action is one continuation (from the  *)
(* settlement of the awaited request up to the issue of the next one).     *)
(* Prices are counted in cents (13.99 is 1399); text produced by $toString *)
(* and $concat is a sequence of character codes, compared byte by byte as  *)
(* the engine's default collation does.  A run ends with close() issued:   *)
(* only a console.log follows its answer, which is no step of its own.     *)
(* A request that throws has changed nothing in the database, and the      *)
(* connection may fail at any request.                                     *)
(***************************************************************************)
EXTENDS Integers, Sequences, FiniteSets

\* Largest starting collection of the interleaved runs / of the aggregation runs.
MaxDocs == 2
MaxRerunDocs == 2
MaxAggDocs == 3

Scripts == {"runQueries", "runAggregations", "runIndexing"}

----------------------------------------------------------------------------
\* Arithmetic and text helpers

Range(f) == {f[i] : i \in DOMAIN f}

Abs(n) == IF n < 0 THEN -n ELSE n

RECURSIVE Gcd(_, _)
Gcd(a, b) == IF b = 0 THEN a ELSE Gcd(b, a % b)

RECURSIVE SeqSum(_)
SeqSum(s) == IF s = <<>> THEN 0 ELSE Head(s) + SeqSum(Tail(s))

\* The quotient n / d (d > 0) in lowest terms: the value of a $avg.
Rat(n, d) ==
    LET g == Gcd(Abs(n), d)
    IN  [num |-> n \div g, den |-> d \div g]

RatLeq(a, b) == a.num * b.den <= b.num * a.den

Take(s, n) == SubSeq(s, 1, IF Len(s) < n THEN Len(s) ELSE n)

Drop(s, n) == SubSeq(s, n + 1, Len(s))

Count(s, Test(_)) == Cardinality({i \in DOMAIN s : Test(s[i])})

\* Orderings of the index set 1..n.
Orders(n) == {p \in [1..n -> 1..n] : \A i, j \in 1..n : p[i] = p[j] => i = j}

\* Every arrangement of the sequence s that is ordered by Leq: a $sort or
\* .sort() promises no order among ties.
SortedBy(s, Leq(_, _)) ==
    {[i \in 1..Len(s) |-> s[p[i]]] : p \in
        {q \in Orders(Len(s)) :
            \A i \in 1..(Len(s) - 1) : Leq(s[q[i]], s[q[i + 1]])}}

\* Every arrangement of the set S as a sequence: the order of a $group's
\* output is unspecified.
Arrangements(S) ==
    {f \in [1..Cardinality(S) -> S] :
        \A i, j \in 1..Cardinality(S) : f[i] = f[j] => i = j}

RECURSIVE Digits(_)
Digits(n) == IF n < 10 THEN <<48 + n>> ELSE Digits(n \div 10) \o <<48 + (n % 10)>>

\* $toString of a whole number: "-" is 45, "0".."9" are 48..57.
toString(n) == IF n < 0 THEN <<45>> \o Digits(-n) ELSE Digits(n)

\* Byte-wise string order (the default collation).
RECURSIVE StrLeq(_, _)
StrLeq(a, b) ==
    IF a = <<>> THEN TRUE
    ELSE IF b = <<>> THEN FALSE
    ELSE IF Head(a) < Head(b) THEN TRUE
    ELSE IF Head(a) > Head(b) THEN FALSE
    ELSE StrLeq(Tail(a), Tail(b))

\* The lower-cased words of the strings the fixture books use, as the text
\* index tokenises them.
Tokens(str) ==
    CASE str = "1984" -> {"1984"}
      [] str = "Moby Dick" -> {"moby", "dick"}
      [] str = "Learning Python" -> {"learning", "python"}
      [] str = "George Orwell" -> {"george", "orwell"}
      [] str = "Herman Melville" -> {"herman", "melville"}
      [] str = "Mark Lutz" -> {"mark", "lutz"}
      [] str = "Secker & Warburg" -> {"secker", "warburg"}
      [] str = "Harper & Brothers" -> {"harper", "brothers"}
      [] str = "O'Reilly" -> {"o'reilly"}
      [] OTHER -> {}

----------------------------------------------------------------------------
\* The books collection: a sequence of documents in natural order.

Book(t, a, g, y, p, n, pub, stock) ==
    [title |-> t, author |-> a, genre |-> g, published_year |-> y,
     price |-> p, pages |-> n, publisher |-> pub, in_stock |-> stock]

\* Fixture books of the interleaved runs: "1984" before and after its price
\* was set, and "Moby Dick".
RunBooks ==
    { Book("1984", "George Orwell", "Dystopian", 1949, 999, 328,
           "Secker & Warburg", TRUE),
      Book("1984", "George Orwell", "Dystopian", 1949, 1399, 328,
           "Secker & Warburg", TRUE),
      Book("Moby Dick", "Herman Melville", "Fiction", 1851, 1250, 635,
           "Harper & Brothers", FALSE) }

\* Fixture books of the repeated runs: one more book, which no write names.
RerunBooks ==
    RunBooks \cup
    { Book("Learning Python", "Mark Lutz", "Fiction", 2013, 2999, 1648,
           "O'Reilly", TRUE) }

\* Fixture books of the aggregation runs: every genre with every price, and
\* one book per further publication year.
AggBooks ==
    { Book("Learning Python", "Mark Lutz", g, 1990, p, 300, "O'Reilly", TRUE) :
        g \in {"Fiction", "Dystopian"}, p \in {-100, 999, 1500, 2500} }
    \cup
    { Book("1984", "George Orwell", "Dystopian", y, 1000, 328,
           "Secker & Warburg", FALSE) : y \in {950, 1949} }

Collections(pool, n) == UNION {[1..k -> pool] : k \in 0..n}

----------------------------------------------------------------------------
\* Index definitions: a key document is a sequence of <<field, direction>>.

IdIndex == <<<<"_id", "1">>>>
TitleKey == <<<<"title", "1">>>>
AuthorYearKey == <<<<"author", "1">>, <<"published_year", "-1">>>>
AuthorKey == <<<<"author", "1">>>>
GenrePriceKey == <<<<"genre", "1">>, <<"price", "-1">>>>
TextKey == <<<<"title", "text">>, <<"author", "text">>, <<"publisher", "text">>>>

IsTextKey(key) == \E i \in DOMAIN key : key[i][2] = "text"

HasIndex(idx, key) == \E i \in DOMAIN idx : idx[i] = key

\* The engine refuses a second text index with another key document.
CreateIndexRejected(idx, key) ==
    /\ ~HasIndex(idx, key)
    /\ IsTextKey(key)
    /\ \E i \in DOMAIN idx : IsTextKey(idx[i])

\* createIndex that adds an index whether or not the collection has it.
CreateIndexAlways(idx, key) == Append(idx, key)

\* createIndex: an index with this key document is left alone, a new one is
\* added to the collection's index list.
CreateIndex(idx, key) == IF HasIndex(idx, key) THEN idx ELSE Append(idx, key)

----------------------------------------------------------------------------
\* Reads of runQueries

FictionBooks(docs) == {SelectSeq(docs, LAMBDA d : d.genre = "Fiction")}

RecentBooks(docs) == {SelectSeq(docs, LAMBDA d : d.published_year > 1950)}

OrwellBooks(docs) == {SelectSeq(docs, LAMBDA d : d.author = "George Orwell")}

Projected(d) == [title |-> d.title, author |-> d.author, price |-> d.price]

InStockRecent(docs) ==
    LET hit == SelectSeq(docs, LAMBDA d : d.in_stock /\ d.published_year > 2010)
    IN  {[i \in 1..Len(hit) |-> Projected(hit[i])]}

ProjectedBooks(docs) == {[i \in 1..Len(docs) |-> Projected(docs[i])]}

SortedAsc(docs) == SortedBy(docs, LAMBDA a, b : a.price <= b.price)

SortedDesc(docs) == SortedBy(docs, LAMBDA a, b : a.price >= b.price)

page == 1
booksPerPage == 5

PaginatedBooks(docs) == {Take(Drop(docs, (page - 1) * booksPerPage), booksPerPage)}

ExplainBefore(docs) ==
    {[nReturned |-> Count(docs, LAMBDA d : d.title = "1984")]}

----------------------------------------------------------------------------
\* Writes of runQueries

NewPrice == 1399

\* Position of the first document with this title, 0 when there is none.
FirstWithTitle(docs, t) ==
    IF \E i \in DOMAIN docs : docs[i].title = t
    THEN CHOOSE i \in DOMAIN docs :
            /\ docs[i].title = t
            /\ \A j \in 1..(i - 1) : docs[j].title # t
    ELSE 0

\* updateOne({title: '1984'}, {$set: {price: 13.99}}): the collection after it.
UpdateOne(docs) ==
    LET i == FirstWithTitle(docs, "1984")
    IN  IF i = 0 THEN docs ELSE [docs EXCEPT ![i].price = NewPrice]

\* updateOne that reports every matched document as modified.
UpdatedAsMatched(docs) ==
    {[matchedCount |-> IF FirstWithTitle(docs, "1984") = 0 THEN 0 ELSE 1,
      modifiedCount |-> IF FirstWithTitle(docs, "1984") = 0 THEN 0 ELSE 1]}

\* What updateOne reports: a matched document that already holds the new
\* value is matched but not modified.
Updated(docs) ==
    LET i == FirstWithTitle(docs, "1984")
    IN  {[matchedCount |-> IF i = 0 THEN 0 ELSE 1,
          modifiedCount |-> IF i # 0 /\ docs[i].price # NewPrice THEN 1 ELSE 0]}

\* A delete of every document with the title.
DeleteMany(docs) == SelectSeq(docs, LAMBDA d : d.title # "Moby Dick")

\* deleteOne({title: 'Moby Dick'}): the collection after it.
DeleteOne(docs) ==
    LET i == FirstWithTitle(docs, "Moby Dick")
    IN  IF i = 0 THEN docs ELSE SubSeq(docs, 1, i - 1) \o SubSeq(docs, i + 1, Len(docs))

Deleted(docs) ==
    {[deletedCount |-> IF FirstWithTitle(docs, "Moby Dick") = 0 THEN 0 ELSE 1]}

----------------------------------------------------------------------------
\* Aggregation pipelines

Map(s, F(_)) == [i \in 1..Len(s) |-> F(s[i])]

\* The rows of the set S in every order that Leq allows.
SortedRows(S, Leq(_, _)) ==
    {r \in Arrangements(S) : \A i \in 1..(Len(r) - 1) : Leq(r[i], r[i + 1])}

\* $avg of a field over the documents of one group.
Avg(members, F(_)) == Rat(SeqSum(Map(members, F)), Len(members))

\* The pipeline with its $sort ascending.
AvgPriceByGenreAscending(docs) ==
    LET rows == {[_id |-> g,
                  averagePrice |->
                      Avg(SelectSeq(docs, LAMBDA d : d.genre = g),
                          LAMBDA d : d.price)] :
                    g \in {docs[i].genre : i \in DOMAIN docs}}
    IN  SortedRows(rows, LAMBDA a, b : RatLeq(a.averagePrice, b.averagePrice))

\* [{$group: {_id: '$genre', averagePrice: {$avg: '$price'}}},
\*  {$sort: {averagePrice: -1}}]
AvgPriceByGenre(docs) ==
    LET rows == {[_id |-> g,
                  averagePrice |->
                      Avg(SelectSeq(docs, LAMBDA d : d.genre = g),
                          LAMBDA d : d.price)] :
                    g \in {docs[i].genre : i \in DOMAIN docs}}
    IN  SortedRows(rows, LAMBDA a, b : RatLeq(b.averagePrice, a.averagePrice))

\* [{$group: {_id: '$author', bookCount: {$sum: 1}}}, {$sort: {bookCount: -1}},
\*  {$limit: 1}]
TopAuthor(docs) ==
    LET rows == {[_id |-> a,
                  bookCount |-> Len(SelectSeq(docs, LAMBDA d : d.author = a))] :
                    a \in {docs[i].author : i \in DOMAIN docs}}
    IN  {Take(r, 1) : r \in SortedRows(rows, LAMBDA a, b : a.bookCount >= b.bookCount)}

MostBooksByAuthor(docs) ==
    LET rows == {[_id |-> a,
                  totalBooks |-> Len(SelectSeq(docs, LAMBDA d : d.author = a))] :
                    a \in {docs[i].author : i \in DOMAIN docs}}
    IN  {Take(r, 1) : r \in SortedRows(rows, LAMBDA a, b : a.totalBooks >= b.totalBooks)}

\* $concat: [$toString: ($floor: published_year / 10) * 10, 's']; "s" is 115.
Decade(y) == toString((y \div 10) * 10) \o <<115>>

\* [{$project: {decade}}, {$group: {_id: '$decade', count: {$sum: 1}}},
\*  {$sort: {_id: 1}}]
BooksByDecade(docs) ==
    LET projected == Map(docs, LAMBDA d : [decade |-> Decade(d.published_year)])
        rows == {[_id |-> k,
                  count |-> Len(SelectSeq(projected, LAMBDA d : d.decade = k))] :
                    k \in {projected[i].decade : i \in DOMAIN projected}}
    IN  SortedRows(rows, LAMBDA a, b : StrLeq(a._id, b._id))

TotalPagesByGenre(docs) ==
    LET rows == {[_id |-> g,
                  totalPages |->
                      SeqSum(Map(SelectSeq(docs, LAMBDA d : d.genre = g),
                                 LAMBDA d : d.pages))] :
                    g \in {docs[i].genre : i \in DOMAIN docs}}
    IN  SortedRows(rows, LAMBDA a, b : a.totalPages >= b.totalPages)

TopPublishers(docs) ==
    LET rows == {[_id |-> p,
                  totalBooks |-> Len(SelectSeq(docs, LAMBDA d : d.publisher = p))] :
                    p \in {docs[i].publisher : i \in DOMAIN docs}}
    IN  {Take(r, 3) : r \in SortedRows(rows, LAMBDA a, b : a.totalBooks >= b.totalBooks)}

\* $bucket boundaries [0, 10, 15, 25] in cents, the _id of each bucket (its
\* lower boundary) and the default bucket's.
Boundaries == <<0, 1000, 1500, 2500>>
BucketIds == <<"0", "10", "15">>
DefaultBucket == "Above $25"

\* The bucket a price falls in: [lower, upper) of two neighbouring
\* boundaries, and the default bucket for every other value.
BucketOf(p) ==
    IF \E i \in DOMAIN BucketIds : Boundaries[i] <= p /\ p < Boundaries[i + 1]
    THEN BucketIds[CHOOSE i \in DOMAIN BucketIds :
                        Boundaries[i] <= p /\ p < Boundaries[i + 1]]
    ELSE DefaultBucket

\* [{$bucket: {groupBy: '$price', boundaries, default, output: {totalBooks,
\*  avgPrice, books}}}]: the non-empty buckets by ascending _id, the default
\* bucket last.
BooksByPriceRange(docs) ==
    LET inBucket(b) == SelectSeq(docs, LAMBDA d : BucketOf(d.price) = b)
        used == SelectSeq(BucketIds \o <<DefaultBucket>>, LAMBDA b : inBucket(b) # <<>>)
    IN  {Map(used, LAMBDA b :
            [_id |-> b,
             totalBooks |-> Len(inBucket(b)),
             avgPrice |-> Avg(inBucket(b), LAMBDA d : d.price),
             books |-> Map(inBucket(b), LAMBDA d : d.title)])}

AvgPagesByAuthor(docs) ==
    LET rows == {[_id |-> a,
                  averagePages |->
                      Avg(SelectSeq(docs, LAMBDA d : d.author = a),
                          LAMBDA d : d.pages)] :
                    a \in {docs[i].author : i \in DOMAIN docs}}
    IN  SortedRows(rows, LAMBDA a, b : RatLeq(b.averagePages, a.averagePages))

\* [{$group: {_id: '$in_stock', total: {$sum: 1}}}], in no promised order.
StockStatus(docs) ==
    Arrangements({[_id |-> k,
                   total |-> Len(SelectSeq(docs, LAMBDA d : d.in_stock = k))] :
                     k \in {docs[i].in_stock : i \in DOMAIN docs}})

----------------------------------------------------------------------------
\* Reads of runIndexing

\* A hint that names an index runIndexing does not create.
HintKeyAscending == <<<<"genre", "1">>, <<"price", "1">>>>

\* The index the hinted query names.
HintKey == GenrePriceKey

\* find({genre: 'Fiction', price: {$lt: 20}}).hint({genre: 1, price: -1}):
\* the matches in the order of the hinted index.
HintedBooks(docs) ==
    SortedBy(SelectSeq(docs, LAMBDA d : d.genre = "Fiction" /\ d.price < 2000),
             LAMBDA a, b : a.price >= b.price)

\* find({$text: {$search: "Python"}})
SearchResults(docs) ==
    {SelectSeq(docs, LAMBDA d :
        "python" \in Tokens(d.title) \cup Tokens(d.author) \cup Tokens(d.publisher))}

----------------------------------------------------------------------------
\* The scripts: the requests each awaits, in order, after client.connect().

Ops(s) ==
    CASE s = "runQueries" ->
            <<"connect", "fictionBooks", "recentBooks", "orwellBooks", "updated",
              "deleted", "inStockRecent", "projectedBooks", "sortedAsc",
              "sortedDesc", "paginatedBooks", "avgPriceByGenre", "topAuthor",
              "booksByDecade", "titleIndex", "compoundIndex", "explainBefore">>
      [] s = "runAggregations" ->
            <<"connect", "avgPriceByGenre", "mostBooksByAuthor", "booksByDecade",
              "totalPagesByGenre", "topPublishers", "booksByPriceRange",
              "avgPagesByAuthor", "stockStatus">>
      [] s = "runIndexing" ->
            <<"connect", "createIndexTitle", "createIndexAuthor",
              "createIndexGenrePrice", "createIndexText", "indexes",
              "findFiction", "findHinted", "searchResults">>

\* The key document of a createIndex request.
KeyOf(op) ==
    CASE op \in {"titleIndex", "createIndexTitle"} -> TitleKey
      [] op = "compoundIndex" -> AuthorYearKey
      [] op = "createIndexAuthor" -> AuthorKey
      [] op = "createIndexGenrePrice" -> GenrePriceKey
      [] op = "createIndexText" -> TextKey

IsCreateIndex(op) ==
    op \in {"titleIndex", "compoundIndex", "createIndexTitle", "createIndexAuthor",
            "createIndexGenrePrice", "createIndexText"}

\* The values the engine may answer a request with.
Results(op, d, idx) ==
    CASE op = "connect" -> {"connected"}
      [] op \in {"fictionBooks", "findFiction"} -> FictionBooks(d)
      [] op = "recentBooks" -> RecentBooks(d)
      [] op = "orwellBooks" -> OrwellBooks(d)
      [] op = "updated" -> Updated(d)
      [] op = "deleted" -> Deleted(d)
      [] op = "inStockRecent" -> InStockRecent(d)
      [] op = "projectedBooks" -> ProjectedBooks(d)
      [] op = "sortedAsc" -> SortedAsc(d)
      [] op = "sortedDesc" -> SortedDesc(d)
      [] op = "paginatedBooks" -> PaginatedBooks(d)
      [] op = "avgPriceByGenre" -> AvgPriceByGenre(d)
      [] op = "topAuthor" -> TopAuthor(d)
      [] op = "mostBooksByAuthor" -> MostBooksByAuthor(d)
      [] op = "booksByDecade" -> BooksByDecade(d)
      [] op = "totalPagesByGenre" -> TotalPagesByGenre(d)
      [] op = "topPublishers" -> TopPublishers(d)
      [] op = "booksByPriceRange" -> BooksByPriceRange(d)
      [] op = "avgPagesByAuthor" -> AvgPagesByAuthor(d)
      [] op = "stockStatus" -> StockStatus(d)
      [] op = "explainBefore" -> ExplainBefore(d)
      [] op = "indexes" -> {idx}
      [] op = "findHinted" -> HintedBooks(d)
      [] op = "searchResults" -> SearchResults(d)
      [] IsCreateIndex(op) -> {KeyOf(op)}

\* The documents and the indexes after the engine has run a request.
DocsAfter(op, d) ==
    CASE op = "updated" -> UpdateOne(d)
      [] op = "deleted" -> DeleteOne(d)
      [] OTHER -> d

IndexesAfter(op, idx) == IF IsCreateIndex(op) THEN CreateIndex(idx, KeyOf(op)) ELSE idx

\* The requests the engine answers with an error: a hint that names no
\* index, a $text query without a text index, a conflicting text index.
Rejected(op, idx) ==
    CASE op = "findHinted" -> ~HasIndex(idx, HintKey)
      [] op = "searchResults" -> ~\E i \in DOMAIN idx : IsTextKey(idx[i])
      [] IsCreateIndex(op) -> CreateIndexRejected(idx, KeyOf(op))
      [] OTHER -> FALSE

----------------------------------------------------------------------------
\* State

VARIABLES
    docs,         \* the books collection, in natural order
    indexes,      \* its indexes, in creation order
    phase,        \* per script: "new", "running", "closing"
    issued,       \* per script: the requests issued so far, in order
    outstanding,  \* per script: the requests awaiting their settlement
    received,     \* per script: how many requests were answered without error
    res,          \* per script: the last answer, [op, val]
    err,          \* per script: "none", or the error the try block threw
    logged,       \* per script: calls of console.error in the catch block
    docs0,        \* the collection and the indexes the runs started from
    indexes0

vars == <<docs, indexes, phase, issued, outstanding, received, res, err, logged,
          docs0, indexes0>>

\* Index lists the scripts leave behind: none has run, runQueries has,
\* runIndexing has.
StartIndexes ==
    { <<IdIndex>>,
      <<IdIndex, TitleKey, AuthorYearKey>>,
      <<IdIndex, TitleKey, AuthorKey, GenrePriceKey, TextKey>> }

InitScripts ==
    /\ phase = [s \in Scripts |-> "new"]
    /\ issued = [s \in Scripts |-> <<>>]
    /\ outstanding = [s \in Scripts |-> {}]
    /\ received = [s \in Scripts |-> 0]
    /\ res = [s \in Scripts |-> [op |-> "none", val |-> <<>>]]
    /\ err = [s \in Scripts |-> "none"]
    /\ logged = [s \in Scripts |-> 0]

Init ==
    /\ docs \in Collections(RunBooks, MaxDocs)
    /\ indexes = <<IdIndex>>
    /\ docs0 = docs
    /\ indexes0 = indexes
    /\ InitScripts

InitRerun ==
    /\ docs \in Collections(RerunBooks, MaxRerunDocs)
    /\ indexes \in StartIndexes
    /\ docs0 = docs
    /\ indexes0 = indexes
    /\ InitScripts

InitAgg ==
    /\ docs \in Collections(AggBooks, MaxAggDocs)
    /\ indexes = <<IdIndex>>
    /\ docs0 = docs
    /\ indexes0 = indexes
    /\ InitScripts

\* The request a running script awaits.
Current(s) == Ops(s)[Len(issued[s])]

\* A script that does not await connect() before its first request.
StartNoAwait(s) ==
    /\ phase[s] = "new"
    /\ phase' = [phase EXCEPT ![s] = "running"]
    /\ issued' = [issued EXCEPT ![s] = <<"connect", Ops(s)[2]>>]
    /\ outstanding' = [outstanding EXCEPT ![s] = {"connect", Ops(s)[2]}]
    /\ UNCHANGED <<docs, indexes, received, res, err, logged, docs0, indexes0>>

\* The script is called: the client is constructed and connect() is issued.
Start(s) ==
    /\ phase[s] = "new"
    /\ phase' = [phase EXCEPT ![s] = "running"]
    /\ issued' = [issued EXCEPT ![s] = <<"connect">>]
    /\ outstanding' = [outstanding EXCEPT ![s] = {"connect"}]
    /\ UNCHANGED <<docs, indexes, received, res, err, logged, docs0, indexes0>>

\* The awaited request is answered: its effect is in the database, the
\* script keeps the answer and issues the next request; after the last one
\* it falls through to the finally block, which issues close().
Resolve(s) ==
    /\ phase[s] = "running"
    /\ outstanding[s] # {}
    /\ ~Rejected(Current(s), indexes)
    /\ \E v \in Results(Current(s), docs, indexes) :
          res' = [res EXCEPT ![s] = [op |-> Current(s), val |-> v]]
    /\ docs' = DocsAfter(Current(s), docs)
    /\ indexes' = IndexesAfter(Current(s), indexes)
    /\ received' = [received EXCEPT ![s] = @ + 1]
    /\ IF Len(issued[s]) < Len(Ops(s))
       THEN /\ issued' = [issued EXCEPT ![s] = Append(@, Ops(s)[Len(@) + 1])]
            /\ outstanding' = [outstanding EXCEPT ![s] = {Ops(s)[Len(issued[s]) + 1]}]
            /\ phase' = phase
       ELSE /\ issued' = [issued EXCEPT ![s] = Append(@, "close")]
            /\ outstanding' = [outstanding EXCEPT ![s] = {"close"}]
            /\ phase' = [phase EXCEPT ![s] = "closing"]
    /\ UNCHANGED <<err, logged, docs0, indexes0>>

\* The errors the awaited request may end with: the connection may fail at
\* any request, the engine refuses the requests of Rejected.
Errors(s) ==
    {"network"} \cup (IF Rejected(Current(s), indexes) THEN {"server"} ELSE {})

\* A catch block that is followed by no finally block.
RejectNoClose(s) ==
    /\ phase[s] = "running"
    /\ outstanding[s] # {}
    /\ \E e \in Errors(s) : err' = [err EXCEPT ![s] = e]
    /\ logged' = [logged EXCEPT ![s] = @ + 1]
    /\ outstanding' = [outstanding EXCEPT ![s] = {}]
    /\ phase' = [phase EXCEPT ![s] = "closing"]
    /\ UNCHANGED <<docs, indexes, issued, received, res, docs0, indexes0>>

\* A catch block that logs the error and issues the failed request again.
RejectAndRetry(s) ==
    /\ phase[s] = "running"
    /\ outstanding[s] # {}
    /\ \E e \in Errors(s) : err' = [err EXCEPT ![s] = e]
    /\ logged' = [logged EXCEPT ![s] = @ + 1]
    /\ issued' = [issued EXCEPT ![s] = Append(@, Current(s))]
    /\ UNCHANGED <<docs, indexes, phase, outstanding, received, res, docs0, indexes0>>

\* The awaited request throws: the catch block logs the error and the
\* finally block issues close(); the request has changed nothing.
Reject(s) ==
    /\ phase[s] = "running"
    /\ outstanding[s] # {}
    /\ \E e \in Errors(s) : err' = [err EXCEPT ![s] = e]
    /\ logged' = [logged EXCEPT ![s] = @ + 1]
    /\ issued' = [issued EXCEPT ![s] = Append(@, "close")]
    /\ outstanding' = [outstanding EXCEPT ![s] = {"close"}]
    /\ phase' = [phase EXCEPT ![s] = "closing"]
    /\ UNCHANGED <<docs, indexes, received, res, docs0, indexes0>>

Step(s) == Start(s) \/ Resolve(s) \/ Reject(s)

Next == \E s \in Scripts : Step(s)

Spec == Init /\ [][Next]_vars

\* runQueries and runIndexing over a collection that earlier runs may have
\* left their indexes on.
NextRerun == Step("runQueries") \/ Step("runIndexing")

SpecRerun == InitRerun /\ [][NextRerun]_vars

\* runAggregations alone, over the collections of AggBooks.
NextAgg == Step("runAggregations")

SpecAgg == InitAgg /\ [][NextAgg]_vars

----------------------------------------------------------------------------
\* Properties

Q == "runQueries"
A == "runAggregations"
X == "runIndexing"

CloseCalls(s) == Count(issued[s], LAMBDA op : op = "close")

\* The run has left its try block: by an error, or past its last request.
Ended(s) == err[s] # "none" \/ received[s] = Len(Ops(s))

\* C1: in every run of each script client.close() is called exactly once,
\* after the last database request that was issued, whether every request
\* succeeds, connect() fails or a later request throws; while the try block
\* runs it has not been called.
C1_CloseExactlyOnce ==
    \A s \in Scripts :
        /\ CloseCalls(s) = (IF Ended(s) THEN 1 ELSE 0)
        /\ Ended(s) =>
              /\ issued[s][Len(issued[s])] = "close"
              /\ outstanding[s] = {"close"}
              /\ phase[s] = "closing"

\* One run closed after full success, one after a failed connect(), one
\* after a later request threw.
C1_Witness ==
    /\ err[Q] = "none" /\ received[Q] = Len(Ops(Q)) /\ CloseCalls(Q) = 1
    /\ err[A] = "network" /\ received[A] = 0 /\ CloseCalls(A) = 1
    /\ err[X] = "network" /\ received[X] = 4 /\ CloseCalls(X) = 1

\* C2: when the request at position k fails, the requests issued are the
\* first k of the fixed order, each once, followed only by close(); the
\* error is logged once; and what the requests before k wrote is still in
\* the database.
C2_FailureAborts ==
    /\ \A s \in Scripts :
          /\ logged[s] = (IF err[s] = "none" THEN 0 ELSE 1)
          /\ err[s] # "none" =>
                issued[s] = SubSeq(Ops(s), 1, received[s] + 1) \o <<"close">>
          /\ \A k \in 1..received[s] :
                IsCreateIndex(Ops(s)[k]) => HasIndex(indexes, KeyOf(Ops(s)[k]))
    /\ received[Q] >= 5 =>
          \A i \in DOMAIN docs : docs[i].title = "1984" =>
              \E j \in 1..i : docs[j].title = "1984" /\ docs[j].price = NewPrice
    /\ received[Q] >= 6 =>
          Count(docs, LAMBDA d : d.title = "Moby Dick") =
            (IF Count(docs0, LAMBDA d : d.title = "Moby Dick") = 0 THEN 0
             ELSE Count(docs0, LAMBDA d : d.title = "Moby Dick") - 1)

\* runQueries failed after its update and delete, runIndexing after its
\* first createIndex, and both writes are in the database.
C2_Witness ==
    /\ err[Q] = "network" /\ received[Q] = 8
    /\ err[X] = "network" /\ received[X] = 2
    /\ Len(docs0) = 2 /\ Len(docs) = 1 /\ docs[1].price # docs0[1].price

SingleMatches ==
    /\ Count(docs0, LAMBDA d : d.title = "1984") = 1
    /\ Count(docs0, LAMBDA d : d.title = "Moby Dick") = 1

\* C4 as stated: with one '1984' and one 'Moby Dick' in the collection the
\* update reports a modified count of 1 and the delete a deleted count of 1.
C4_AlwaysOneModified ==
    SingleMatches =>
        /\ res[Q].op = "updated" => res[Q].val.modifiedCount = 1
        /\ res[Q].op = "deleted" => res[Q].val.deletedCount = 1

\* C4 amended: the update matches one document and reports a modified count
\* of 1 when the price of '1984' is not 13.99 yet and of 0 when it is; the
\* delete reports a deleted count of 1.
C4_OneMatchedOneDeleted ==
    SingleMatches =>
        /\ res[Q].op = "updated" =>
              /\ res[Q].val.matchedCount = 1
              /\ res[Q].val.modifiedCount =
                    (IF \E i \in DOMAIN docs0 :
                            docs0[i].title = "1984" /\ docs0[i].price = NewPrice
                     THEN 0 ELSE 1)
        /\ res[Q].op = "deleted" => res[Q].val.deletedCount = 1

\* The update has been answered for a '1984' that already cost 13.99.
C4_Witness ==
    /\ SingleMatches
    /\ \E i \in DOMAIN docs0 : docs0[i].title = "1984" /\ docs0[i].price = NewPrice
    /\ res[Q].op = "updated"
    /\ res[Q].val.modifiedCount = 0

\* The requests that answer with a sequence of documents or of rows.
QueryOps ==
    {"fictionBooks", "recentBooks", "orwellBooks", "inStockRecent",
     "projectedBooks", "sortedAsc", "sortedDesc", "paginatedBooks",
     "avgPriceByGenre", "topAuthor", "mostBooksByAuthor", "booksByDecade",
     "totalPagesByGenre", "topPublishers", "booksByPriceRange",
     "avgPagesByAuthor", "stockStatus", "findFiction", "findHinted",
     "searchResults"}

\* C5: against an empty collection every query answers with an empty
\* sequence, update and delete report 0, and the engine refuses no request:
\* a script enters its catch block only when the connection fails.
C5_EmptyCollection ==
    docs0 = <<>> =>
        \A s \in Scripts :
            /\ err[s] # "server"
            /\ res[s].op \in QueryOps => res[s].val = <<>>
            /\ res[s].op = "updated" => res[s].val.modifiedCount = 0
            /\ res[s].op = "deleted" => res[s].val.deletedCount = 0
            /\ res[s].op = "explainBefore" => res[s].val.nReturned = 0

\* All three scripts ran to their end over an empty collection.
C5_Witness ==
    /\ docs0 = <<>>
    /\ \A s \in Scripts : err[s] = "none" /\ received[s] = Len(Ops(s))

\* C6: the average-price-by-genre rows are one per genre of the collection,
\* each averagePrice is the sum of the genre's prices divided by the number
\* of its books, and the rows descend by averagePrice.
C6_AveragePriceByGenre ==
    res[A].op = "avgPriceByGenre" =>
        LET rows == res[A].val
            of(g) == {i \in DOMAIN docs : docs[i].genre = g}
            RECURSIVE total(_)
            total(S) == IF S = {} THEN 0
                        ELSE LET i == CHOOSE i \in S : TRUE
                             IN  docs[i].price + total(S \ {i})
        IN  /\ {rows[i]._id : i \in DOMAIN rows} = {docs[i].genre : i \in DOMAIN docs}
            /\ \A i, j \in DOMAIN rows : rows[i]._id = rows[j]._id => i = j
            /\ \A i \in DOMAIN rows :
                  /\ rows[i].averagePrice.den > 0
                  /\ rows[i].averagePrice.num * Cardinality(of(rows[i]._id))
                        = total(of(rows[i]._id)) * rows[i].averagePrice.den
            /\ \A i \in 1..(Len(rows) - 1) :
                  rows[i].averagePrice.num * rows[i + 1].averagePrice.den
                    >= rows[i + 1].averagePrice.num * rows[i].averagePrice.den

\* Two genres, one of them with two books of different prices.
C6_Witness ==
    /\ res[A].op = "avgPriceByGenre"
    /\ Len(res[A].val) = 2
    /\ \E i, j \in DOMAIN docs :
          docs[i].genre = docs[j].genre /\ docs[i].price < docs[j].price
    /\ res[A].val[1].averagePrice # res[A].val[2].averagePrice

\* C8: the price-range buckets hold every book once: 0 <= price < 10 in
\* bucket 0, 10 <= price < 15 in bucket 10, 15 <= price < 25 in bucket 15,
\* and the books of the bucket 'Above $25' have a price of at least 25.
C8_PriceBuckets ==
    res[A].op = "booksByPriceRange" =>
        LET rows == res[A].val
            within(lo, hi) == Count(docs, LAMBDA d : lo <= d.price /\ d.price < hi)
        IN  /\ SeqSum([i \in DOMAIN rows |-> rows[i].totalBooks]) = Len(docs)
            /\ \A i \in DOMAIN rows :
                  rows[i].totalBooks =
                    CASE rows[i]._id = "0" -> within(0, 1000)
                      [] rows[i]._id = "10" -> within(1000, 1500)
                      [] rows[i]._id = "15" -> within(1500, 2500)
                      [] rows[i]._id = "Above $25" ->
                            Count(docs, LAMBDA d : d.price >= 2500)

\* What holds of the price-range buckets: every book is in one bucket, the
\* three ranges are as C8 says, and the bucket 'Above $25' holds every book
\* whose price is in none of them, below 0 as well as from 25 up.
PriceBucketsWithDefault ==
    res[A].op = "booksByPriceRange" =>
        LET rows == res[A].val
            within(lo, hi) == Count(docs, LAMBDA d : lo <= d.price /\ d.price < hi)
        IN  /\ SeqSum([i \in DOMAIN rows |-> rows[i].totalBooks]) = Len(docs)
            /\ \A i \in DOMAIN rows :
                  rows[i].totalBooks =
                    CASE rows[i]._id = "0" -> within(0, 1000)
                      [] rows[i]._id = "10" -> within(1000, 1500)
                      [] rows[i]._id = "15" -> within(1500, 2500)
                      [] rows[i]._id = "Above $25" ->
                            Count(docs, LAMBDA d : d.price >= 2500 \/ d.price < 0)

\* C9: the decade groups count every book once, under the text of
\* floor(year / 10) * 10 followed by 's', and come in ascending
\* chronological order of decade.
C9_DecadesChronological ==
    res[A].op = "booksByDecade" =>
        LET rows == res[A].val
        IN  /\ SeqSum([i \in DOMAIN rows |-> rows[i].count]) = Len(docs)
            /\ \A i \in DOMAIN rows :
                  rows[i].count =
                    Count(docs, LAMBDA d :
                        toString((d.published_year \div 10) * 10) \o <<115>>
                            = rows[i]._id)
            /\ \A i, j \in DOMAIN rows : \A a, b \in DOMAIN docs :
                  ( /\ i < j
                    /\ Decade(docs[a].published_year) = rows[i]._id
                    /\ Decade(docs[b].published_year) = rows[j]._id )
                  => docs[a].published_year \div 10 < docs[b].published_year \div 10

\* What holds of the decade groups: every book is counted once under its
\* decade's text, and the groups ascend in the byte order of that text.
DecadesInTextOrder ==
    res[A].op = "booksByDecade" =>
        LET rows == res[A].val
        IN  /\ SeqSum([i \in DOMAIN rows |-> rows[i].count]) = Len(docs)
            /\ \A i \in DOMAIN rows :
                  rows[i].count =
                    Count(docs, LAMBDA d :
                        toString((d.published_year \div 10) * 10) \o <<115>>
                            = rows[i]._id)
            /\ \A i \in 1..(Len(rows) - 1) :
                  rows[i]._id # rows[i + 1]._id /\ StrLeq(rows[i]._id, rows[i + 1]._id)

\* C7: a script has at most one request outstanding, the last one it
\* issued; the requests before it are those of the fixed order and each has
\* been answered; and a database request is outstanding only after
\* connect() has been answered without error.
C7_Sequential ==
    \A s \in Scripts :
        /\ Cardinality(outstanding[s]) <= 1
        /\ \A op \in outstanding[s] :
              /\ op = issued[s][Len(issued[s])]
              /\ op # "close" =>
                    /\ issued[s] = SubSeq(Ops(s), 1, Len(issued[s]))
                    /\ received[s] = Len(issued[s]) - 1
              /\ op \notin {"connect", "close"} =>
                    /\ issued[s][1] = "connect"
                    /\ received[s] >= 1

\* Each script awaits a request in the middle of its sequence.
C7_Witness ==
    /\ outstanding[Q] = {"updated"}
    /\ outstanding[A] = {"stockStatus"}
    /\ outstanding[X] = {"createIndexText"}

\* C10: the collection is the starting one with at most one 'Moby Dick'
\* removed and at most one '1984' changed, in its price alone, to 13.99; it
\* is the starting one until runQueries has been answered for its update;
\* the indexes are those of the start and those the scripts create; and
\* when all three scripts have run to their end, in whatever interleaving,
\* the documents and the set of indexes are the same.
C10_Frame ==
    /\ \E gone \in {0} \cup {i \in DOMAIN docs0 : docs0[i].title = "Moby Dick"} :
          LET kept == SubSeq(docs0, 1, gone - 1) \o SubSeq(docs0, gone + 1, Len(docs0))
              changed == {i \in DOMAIN kept : docs[i] # kept[i]}
          IN  /\ Len(docs) = Len(kept)
              /\ Cardinality(changed) <= 1
              /\ \A i \in changed :
                    /\ kept[i].title = "1984"
                    /\ docs[i] = [kept[i] EXCEPT !.price = NewPrice]
    /\ received[Q] < 5 => docs = docs0
    /\ Range(indexes) \subseteq
          Range(indexes0) \cup {TitleKey, AuthorYearKey, AuthorKey, GenrePriceKey, TextKey}
    /\ received[Q] < 15 /\ received[X] < 2 => indexes = indexes0
    /\ (\A s \in Scripts : err[s] = "none" /\ received[s] = Len(Ops(s))) =>
          /\ docs = DeleteOne(UpdateOne(docs0))
          /\ Range(indexes) =
                Range(indexes0) \cup
                    {TitleKey, AuthorYearKey, AuthorKey, GenrePriceKey, TextKey}

\* All three scripts ran to their end over two '1984' the first of which
\* was updated.
C10_Witness ==
    /\ \A s \in Scripts : err[s] = "none" /\ received[s] = Len(Ops(s))
    /\ Len(docs0) = 2
    /\ docs0[1].title = "1984" /\ docs0[2].title = "1984"
    /\ docs0[1].price # NewPrice /\ docs0[2].price # NewPrice
    /\ docs[1].price = NewPrice /\ docs[2] = docs0[2]

====
